---- MODULE Spec2Model ----
(***************************************************************************)
(* Twitch-Needle, src/server.py: a chat listener coroutine adds +2 / -2 to *)
(* a module-level counter, Flask handlers served from worker threads reset *)
(* it, stream it as server-sent events, or end the process.                *)
(*                                                                         *)
(* Granularity.  The listener runs on the event loop thread; the Flask     *)
(* handlers (WSGI) run on executor threads.  Every read and every write of *)
(* the global `counter` is therefore its own step: `counter += 2` is a     *)
(* load followed by a store, and one pass of the poll loop reads the       *)
(* global three times (lines 41, 42 and 44).                               *)
(***************************************************************************)
EXTENDS Integers, Sequences, FiniteSets, TLC

\* ---------------------------------------------------------------- bounds
\* the listener and the control endpoints alone (SpecChat)
MaxMsgs == 3        \* chat messages delivered in one run
MaxResets == 2      \* POSTs to /reset in one run
MaxLen == 4         \* longest chat message
\* the same with long messages (SpecLong)
MaxLongMsgs == 1    \* chat messages delivered in one run
MaxLongLen == 6     \* longest chat message
\* the whole program (Spec, FairSpec)
MaxStreamMsgs == 2    \* chat messages delivered in one run
MaxStreamResets == 1  \* POSTs to /reset in one run
MaxShortLen == 2      \* longest chat message

Subs == {"s1"}      \* browsers that may open /stream

\* ------------------------------------------------------- Python values
None == <<>>                 \* Python None
Some(v) == <<v>>             \* any other value
Falsy(e) == e = None \/ e = Some("")         \* `not e` for None or a str

\* ------------------------------------------------------------- strings
\* A str is a sequence of one-character strings.
Alphabet == {"+", "-", "2", " ", "A"}
Whitespace == {" "}

SeqsUpTo(n) == UNION {[1..k -> Alphabet] : k \in 0..n}
Messages == SeqsUpTo(MaxLen)
ShortMessages == SeqsUpTo(MaxShortLen)
LongMessages == SeqsUpTo(MaxLongLen)

RECURSIVE LStrip(_)
LStrip(s) == IF s # <<>> /\ Head(s) \in Whitespace THEN LStrip(Tail(s)) ELSE s

RECURSIVE RStrip(_)
RStrip(s) ==
  IF s # <<>> /\ s[Len(s)] \in Whitespace THEN RStrip(SubSeq(s, 1, Len(s) - 1)) ELSE s

\* str.strip()
Strip(s) == RStrip(LStrip(s))

LowerChar(c) == IF c = "A" THEN "a" ELSE c

\* str.lower()
Lower(s) == [i \in 1..Len(s) |-> LowerChar(s[i])]

\* `sub in s`
Contains(sub, s) ==
  \E i \in 1..(Len(s) - Len(sub) + 1) : SubSeq(s, i, i + Len(sub) - 1) = sub

Plus2 == <<"+", "2">>
Minus2 == <<"-", "2">>

\* line 173
Normalize(raw) == Lower(Strip(raw))

\* lines 174-177: the amount the if / elif adds to the counter
Delta_minusFirst(content) ==
  IF Contains(Minus2, content) THEN -2
  ELSE IF Contains(Plus2, content) THEN 2
  ELSE 0

Delta_elifFallsThrough(content) ==
  IF Contains(Plus2, content) THEN 2 ELSE -2

Delta(content) ==
  IF Contains(Plus2, content) THEN 2
  ELSE IF Contains(Minus2, content) THEN -2
  ELSE 0

\* ------------------------------------------------------------ the frame
\* json.dumps({"counter": n}) wrapped in "data: ...\n\n"
Frame(n) == [event |-> "data", counter |-> n]

\* ---------------------------------------------------------------- state
VARIABLES
  phase,        \* "init", "configured", "running", "failed", "exited"
  error,        \* why the import failed, "" otherwise
  env,          \* the environment: TWITCH_CHANNEL, TWITCH_TOKEN, PORT
  counter,      \* the module-level counter (line 31)
  botPc,        \* event_message: "idle" or "store" (between load and store)
  botLoaded,    \* the value LOAD_GLOBAL pushed for the pending `counter += d`
  botDelta,     \* the d of the pending `counter += d`
  pc,           \* event_stream of each subscriber: "closed", "l41", "l42", "l44", "l45"
  last_value,   \* event_stream's local last_value
  \* history
  nMsgs,        \* chat messages delivered so far
  last,         \* which patterns the latest message's normalized content holds
  expected,     \* sum of the deltas of the messages applied since the last reset
  resets,       \* resets completed so far
  resetLog,     \* values overwritten by the resets since the listener last stepped
  sent,         \* frames each subscriber was sent, oldest first
  changes,      \* counter changes since each subscriber connected
  shutdownPosted  \* a POST to /shutdown was handled

vars == <<phase, error, env, counter, botPc, botLoaded, botDelta, pc, last_value,
          nMsgs, last, expected, resets, resetLog, sent, changes, shutdownPosted>>

botVars == <<botPc, botLoaded, botDelta>>
streamVars == <<pc, last_value>>
startVars == <<phase, error, env>>
botHist == <<nMsgs, last, expected>>
resetHist == <<resets, resetLog>>
streamHist == <<sent, changes>>

EnvChoices == {None, Some(""), Some("bot")}
PortChoices == {None, Some(<<"h", "t", "t", "p">>)}

Init ==
  /\ phase = "init"
  /\ error = ""
  /\ env \in [channel : EnvChoices, token : EnvChoices, port : PortChoices]
  /\ counter = 0
  /\ botPc = "idle"
  /\ botLoaded = 0
  /\ botDelta = 0
  /\ pc = [s \in Subs |-> "closed"]
  /\ last_value = [s \in Subs |-> None]
  /\ nMsgs = 0
  /\ last = [plus |-> FALSE, minus |-> FALSE]
  /\ expected = 0
  /\ resets = 0
  /\ resetLog = <<>>
  /\ sent = [s \in Subs |-> <<>>]
  /\ changes = [s \in Subs |-> 0]
  /\ shutdownPosted = FALSE

Running == phase = "running"

\* counter changes seen by the open subscribers when the counter becomes n
Bump(n) ==
  [s \in Subs |-> IF pc[s] # "closed" /\ n # counter THEN changes[s] + 1 ELSE changes[s]]

\* ------------------------------------------------------------- start-up
Digits == {"0", "1", "2", "3", "4", "5", "6", "7", "8", "9"}
DefaultPort == <<"8", "0", "8", "0">>

\* os.getenv("PORT", "8080")
PortText(p) == IF p = None THEN DefaultPort ELSE p[1]

\* int(...) on line 23 returns; otherwise it raises ValueError
PortParses(p) == PortText(p) # <<>> /\ \A i \in 1..Len(PortText(p)) : PortText(p)[i] \in Digits

\* line 24
ConfigMissing_isNone(e) == e.channel = None \/ e.token = None

ConfigMissing(e) == Falsy(e.channel) \/ Falsy(e.token)

\* lines 20-25
LoadConfig ==
  /\ phase = "init"
  /\ IF ~PortParses(env.port)
       THEN phase' = "failed" /\ error' = "invalid_port"
       ELSE IF ConfigMissing(env)
         THEN phase' = "failed" /\ error' = "missing_config"
         ELSE phase' = "configured" /\ error' = error
  /\ UNCHANGED <<env, counter, botVars, streamVars, botHist, resetHist, streamHist,
                 shutdownPosted>>

\* lines 180-187 and 201-202
Main ==
  /\ phase = "configured"
  /\ phase' = "running"
  /\ UNCHANGED <<error, env, counter, botVars, streamVars, botHist, resetHist,
                 streamHist, shutdownPosted>>

\* ------------------------------------------------------- chat listener
\* lines 171-177 up to the LOAD_GLOBAL of `counter += d`; a message that
\* matches neither pattern ends the handler here
EventMessage(m) ==
  /\ Running
  /\ botPc = "idle"
  /\ LET content == Normalize(m)
         d == Delta(content)
     IN /\ IF d # 0
             THEN botPc' = "store" /\ botLoaded' = counter /\ botDelta' = d
             ELSE UNCHANGED botVars
        /\ last' = [plus |-> Contains(Plus2, content), minus |-> Contains(Minus2, content)]
  /\ nMsgs' = nMsgs + 1
  /\ resetLog' = <<>>
  /\ UNCHANGED <<startVars, counter, streamVars, expected, resets, streamHist,
                 shutdownPosted>>

\* the amount the latest message stands for
LastDelta == IF last.plus THEN 2 ELSE IF last.minus THEN -2 ELSE 0

StoredValue_overwrites(loaded, d) == d

\* lines 175 and 177: the value `counter += d` stores, loaded being the value it read
StoredValue(loaded, d) == loaded + d

\* lines 175 and 177: the STORE_GLOBAL of `counter += d`
StoreCounter ==
  /\ Running
  /\ botPc = "store"
  /\ counter' = StoredValue(botLoaded, botDelta)
  /\ botPc' = "idle"
  /\ botLoaded' = 0
  /\ botDelta' = 0
  /\ expected' = expected + LastDelta
  /\ changes' = Bump(StoredValue(botLoaded, botDelta))
  /\ resetLog' = <<>>
  /\ UNCHANGED <<startVars, streamVars, nMsgs, last, resets, sent, shutdownPosted>>

\* ------------------------------------------------------------ web server
ResetValue_keeps(c) == c

\* line 193
ResetValue(c) == 0

\* lines 190-194
ResetCounter ==
  /\ Running
  /\ counter' = ResetValue(counter)
  /\ resets' = resets + 1
  /\ resetLog' = Append(resetLog, counter)
  /\ expected' = 0
  /\ changes' = Bump(ResetValue(counter))
  /\ UNCHANGED <<startVars, botVars, streamVars, nMsgs, last, sent, shutdownPosted>>

ExitPhase_returns(p) == p

\* line 199: os._exit(0) ends every thread of the process at once
ExitPhase(p) == "exited"

\* lines 196-199
Shutdown ==
  /\ Running
  /\ phase' = ExitPhase(phase)
  /\ shutdownPosted' = TRUE
  /\ UNCHANGED <<error, env, counter, botVars, streamVars, botHist, resetHist, streamHist>>

InitialLast_zero == Some(0)

\* line 37
InitialLast == None

\* lines 34-37 and 46: a browser opens /stream
Stream(s) ==
  /\ Running
  /\ pc[s] = "closed"
  /\ pc' = [pc EXCEPT ![s] = "l41"]
  /\ last_value' = [last_value EXCEPT ![s] = InitialLast]
  /\ UNCHANGED <<startVars, counter, botVars, botHist, resetHist, streamHist, shutdownPosted>>

\* line 41: first read of the global
Compare(s) ==
  /\ Running
  /\ pc[s] = "l41"
  /\ pc' = [pc EXCEPT ![s] = IF Some(counter) # last_value[s] THEN "l42" ELSE "l45"]
  /\ UNCHANGED <<startVars, counter, botVars, last_value, botHist, resetHist, streamHist,
                 shutdownPosted>>

\* lines 42-43: second read of the global, the frame is yielded
Yield(s) ==
  /\ Running
  /\ pc[s] = "l42"
  /\ sent' = [sent EXCEPT ![s] = Append(@, Frame(counter))]
  /\ pc' = [pc EXCEPT ![s] = "l44"]
  /\ UNCHANGED <<startVars, counter, botVars, last_value, botHist, resetHist, changes,
                 shutdownPosted>>

\* line 44: third read of the global
Assign(s) ==
  /\ Running
  /\ pc[s] = "l44"
  /\ last_value' = [last_value EXCEPT ![s] = Some(counter)]
  /\ pc' = [pc EXCEPT ![s] = "l45"]
  /\ UNCHANGED <<startVars, counter, botVars, botHist, resetHist, streamHist, shutdownPosted>>

\* line 45
Sleep(s) ==
  /\ Running
  /\ pc[s] = "l45"
  /\ pc' = [pc EXCEPT ![s] = "l41"]
  /\ UNCHANGED <<startVars, counter, botVars, last_value, botHist, resetHist, streamHist,
                 shutdownPosted>>

\* one step of a subscriber's poll loop
Poll(s) == Compare(s) \/ Yield(s) \/ Assign(s) \/ Sleep(s)

\* ------------------------------------------------------- specifications
\* the whole program
Next ==
  \/ LoadConfig
  \/ Main
  \/ nMsgs < MaxStreamMsgs /\ \E m \in ShortMessages : EventMessage(m)
  \/ StoreCounter
  \/ resets < MaxStreamResets /\ ResetCounter
  \/ Shutdown
  \/ \E s \in Subs : Stream(s)
  \/ \E s \in Subs : Compare(s)
  \/ \E s \in Subs : Yield(s)
  \/ \E s \in Subs : Assign(s)
  \/ \E s \in Subs : Sleep(s)

Spec == Init /\ [][Next]_vars

\* the whole program, every worker thread that serves a stream keeps running
FairSpec == Spec /\ \A s \in Subs : WF_vars(Poll(s))

\* the listener and the control endpoints, no browser connected
NextChat ==
  \/ LoadConfig
  \/ Main
  \/ nMsgs < MaxMsgs /\ \E m \in Messages : EventMessage(m)
  \/ StoreCounter
  \/ resets < MaxResets /\ ResetCounter
  \/ Shutdown

SpecChat == Init /\ [][NextChat]_vars

\* the same, fewer and longer messages
NextLong ==
  \/ LoadConfig
  \/ Main
  \/ nMsgs < MaxLongMsgs /\ \E m \in LongMessages : EventMessage(m)
  \/ StoreCounter
  \/ resets < MaxResets /\ ResetCounter
  \/ Shutdown

SpecLong == Init /\ [][NextLong]_vars

\* --------------------------------------------------------------- claims
LastFrame(s) == sent[s][Len(sent[s])]

\* the values the counter can take in the whole-program specification
CounterValues == {2 * k : k \in -MaxStreamMsgs..MaxStreamMsgs}

\* C1: from counter = 0 and with no reset so far, the counter equals the sum
\* of the deltas of the messages handled: +2 for a message whose normalized
\* content contains "+2", otherwise -2 if it contains "-2", otherwise 0.
C1_SumOfDeltas == resets = 0 => counter = expected

\* three messages "+2 ..", "-2 ..", "+2" were handled, no reset: counter = 2
C1_Witness ==
  /\ resets = 0 /\ nMsgs = 3 /\ botPc = "idle"
  /\ last = [plus |-> TRUE, minus |-> FALSE]
  /\ counter = 2

\* C2: under every interleaving of event_message's load and store with
\* reset_counter no update is lost: once the handler has returned, the counter
\* equals the sum of the deltas of the messages applied since the last reset.
C2_NoLostUpdate == botPc = "idle" => counter = expected

\* C3: if the counter stops changing at v while a subscriber's poll loop keeps
\* running, the last frame that subscriber was sent eventually carries v.
C3_EventuallyLatest ==
  \A s \in Subs : \A v \in CounterValues :
    <>[](Running /\ pc[s] # "closed" /\ counter = v)
      => <>[](sent[s] # <<>> /\ LastFrame(s).counter = v)

\* C4: a POST to /reset sets the counter to 0 whatever it was and touches
\* nothing else; a reset that follows a reset with no listener step in
\* between leaves the state as the first one left it.
C4_ResetZeroIdempotent ==
  [][resets' = resets + 1 =>
       /\ counter' = 0
       /\ UNCHANGED <<startVars, botVars, streamVars>>
       /\ (resetLog # <<>> => counter' = counter)]_vars

\* two resets in a row, the first one overwrote a non-zero counter
C4_Witness == Len(resetLog) = 2 /\ resetLog[1] # 0 /\ counter = 0

\* C5: a message whose normalized content contains both "+2" and "-2" makes
\* the handler add +2, never -2 and never 0: it leaves the if with a pending
\* `counter += 2` and stores the value it read plus 2.
C5_BothMeansPlus2 ==
  [][(last'.plus /\ last'.minus) =>
       /\ (nMsgs' = nMsgs + 1 =>
             botPc' = "store" /\ botDelta' = 2 /\ botLoaded' = counter)
       /\ (botPc = "store" /\ botPc' = "idle" =>
             counter' = botLoaded + 2 /\ (counter = botLoaded => counter' = counter + 2))]_vars

\* the first message held both patterns and its handler returned: counter = 2
C5_Witness ==
  /\ last = [plus |-> TRUE, minus |-> TRUE]
  /\ nMsgs = 1 /\ botPc = "idle" /\ resets = 0
  /\ counter = 2

\* C6: handling a message whose normalized content contains neither "+2" nor
\* "-2" changes no state of the program.
C6_NeitherNoChange ==
  [][(nMsgs' = nMsgs + 1 /\ ~last'.plus /\ ~last'.minus) =>
       UNCHANGED <<counter, botVars, streamVars, startVars>>]_vars

\* a second message with neither pattern was handled and the counter kept its 2
C6_Witness ==
  /\ last = [plus |-> FALSE, minus |-> FALSE]
  /\ nMsgs = 2 /\ botPc = "idle" /\ resets = 0
  /\ counter = 2

\* C7: a subscriber's first pass through the poll loop always sends a frame;
\* while the counter has not changed since the subscriber connected, that
\* frame is the only one and carries the current counter value, whatever
\* happened before the connection; and a subscriber never has more frames
\* than one plus the counter changes since it connected.
C7_FirstFrameCurrent ==
  \A s \in Subs :
    /\ Len(sent[s]) <= 1 + changes[s]
    /\ (pc[s] \in {"l44", "l45"} => sent[s] # <<>>)
    /\ (changes[s] = 0 /\ sent[s] # <<>> => sent[s] = <<Frame(counter)>>)

\* a subscriber connected after two mutations and was sent the current 4 only
C7_Witness ==
  \E s \in Subs :
    /\ nMsgs = 2 /\ counter = 4 /\ changes[s] = 0
    /\ sent[s] = <<Frame(4)>>

\* C8: once a POST to /shutdown was handled no thread takes another step, and
\* handling it changes nothing but the process being gone: pending stores and
\* frames are abandoned.
C8_ShutdownStopsAll ==
  [][/\ ~shutdownPosted
     /\ (shutdownPosted' =>
           phase' = "exited" /\ UNCHANGED <<counter, botVars, streamVars, sent>>)]_vars

\* the process is gone while a store and a frame were pending
C8_Witness ==
  /\ shutdownPosted /\ phase = "exited"
  /\ botPc = "store"
  /\ \E s \in Subs : pc[s] = "l42"

\* C9: with TWITCH_CHANNEL or TWITCH_TOKEN unset or empty the import fails
\* before main() runs: the program never runs, no message is handled, no
\* stream is opened and the counter stays 0.
C9_FailFast ==
  (env.channel \in {None, Some("")} \/ env.token \in {None, Some("")}) =>
    /\ phase \in {"init", "failed"}
    /\ (phase = "failed" => error \in {"missing_config", "invalid_port"})
    /\ counter = 0 /\ nMsgs = 0 /\ resets = 0 /\ botPc = "idle"
    /\ \A s \in Subs : pc[s] = "closed" /\ sent[s] = <<>>
    /\ ~shutdownPosted

\* the import failed on an empty channel name
C9_Witness ==
  /\ phase = "failed" /\ error = "missing_config"
  /\ env.channel = Some("") /\ env.token = Some("bot")

\* C10: only transitions are streamed: two consecutive frames of a subscriber
\* never carry the same value, and between passes last_value is the value of
\* the frame sent last.
C10_OnlyTransitions ==
  \A s \in Subs :
    /\ \A i \in 1..(Len(sent[s]) - 1) : sent[s][i] # sent[s][i + 1]
    /\ (pc[s] \in {"l41", "l45"} /\ last_value[s] # None =>
          last_value[s] = Some(LastFrame(s).counter))

====
